---- MODULE Spec2Model ----
(***************************************************************************)
(* A model of minizinc-python's parameter model (minizinc/model.py) and of *)
(* its solver-output decoding layer (minizinc/result.py).                  *)
(*                                                                         *)
(* Python values are written as TLA+ strings: the integer 5 is "5", None   *)
(* is "None", a one-character string is that character.  A parameter name  *)
(* is a sequence of characters, so that tuple unpacking of a name can be   *)
(* modelled.  A path is a sequence of name pieces with "." and "/" as      *)
(* pieces of their own, so that Path.suffix is computed, not assumed.      *)
(***************************************************************************)
EXTENDS Integers, Sequences, FiniteSets, TLC

VARIABLES
    data,            \* Model._data: dict from parameter name to value
    includes,        \* Model._includes: list of paths
    code_fragments,  \* Model._code_fragments: list of strings
    raised,          \* exception raised by the last call ("none" if it returned)
    ret,             \* value returned by the last __copy__ call
    lastOp,          \* the last call and the model's fields before it
    sentTexts,       \* history: texts passed to add_string, in call order
    addedPaths,      \* history: .mzn/.dzn paths add_file accepted, in call order
    ncalls,          \* number of calls made on the model
    pc,              \* position of a decoding run: "call" or "done"
    arg,             \* argument of the decoding function under study
    res              \* its result

vars == <<data, includes, code_fragments, raised, ret, lastOp, sentTexts,
          addedPaths, ncalls, pc, arg, res>>

modelVars == <<data, includes, code_fragments, raised, ret, lastOp, sentTexts,
               addedPaths, ncalls>>

decodeVars == <<pc, arg, res>>

(***************************************************************************)
(* Bounds of the model.                                                    *)
(***************************************************************************)
MaxCalls == 3
MaxFields == 2
MaxFracLen == 2
MaxOutputLen == 5
MaxSolutions == 2
MaxLines == 2
MaxJsonFields == 3

(***************************************************************************)
(* Python dictionaries: a function whose DOMAIN is the set of keys.        *)
(***************************************************************************)
EmptyDict == [k \in {} |-> "None"]

DictGet(d, k, default) == IF k \in DOMAIN d THEN d[k] ELSE default

DictSet(d, k, v) == [x \in DOMAIN d \cup {k} |-> IF x = k THEN v ELSE d[x]]

IsPrefix(s, t) == Len(s) <= Len(t) /\ SubSeq(t, 1, Len(s)) = s

(***************************************************************************)
(* Inputs.                                                                 *)
(***************************************************************************)
Keys == {<<"n">>, <<"a">>, <<"a", "b">>}

Values == {"None", "5", "6", "b"}

\* the fields a .json file is built from: a parameter n, and two-character
\* names, which are the ones the loop of add_file can unpack
JsonFieldChoices ==
    {<<(<<"n">>), "5">>, <<(<<"n">>), "6">>, <<(<<"a", "b">>), "5">>,
     <<(<<"a", "n">>), "5">>}

\* The objects a .json file can decode to: fields in document order, names distinct.
JsonObjects ==
    {o \in UNION {[1..n -> JsonFieldChoices] : n \in 0..MaxFields} :
        \A i, j \in DOMAIN o : i # j => o[i][1] # o[j][1]}

Texts == {"", "constraint x > 0;"}

Paths == {<<"m", ".", "mzn">>, <<"d", ".", "dzn">>, <<"p", ".", "json">>,
          <<"r", ".", "txt">>, <<".", "mzn">>, <<"p", ".", "json", "/", "m">>,
          <<"x", ".", "mzn">>}

\* The file-system collaborator: every path but x.mzn exists.
ExistingPaths == Paths \ {<<"x", ".", "mzn">>}

Exists(path) == path \in ExistingPaths

(***************************************************************************)
(* pathlib: Path.name is the part after the last "/", Path.suffix the part *)
(* of the name from its last "." on, unless that "." starts or ends it.    *)
(***************************************************************************)
LastIndexOf(s, c) ==
    IF \E i \in DOMAIN s : s[i] = c
    THEN CHOOSE i \in DOMAIN s : s[i] = c /\ \A j \in DOMAIN s : s[j] = c => j <= i
    ELSE 0

PathName(path) == SubSeq(path, LastIndexOf(path, "/") + 1, Len(path))

Suffix(path) ==
    LET name == PathName(path)
        i == LastIndexOf(name, ".")
    IN IF 1 < i /\ i < Len(name) THEN SubSeq(name, i, Len(name)) ELSE <<>>

(***************************************************************************)
(* Model.__setitem__ on a dict d: the dict afterwards and the exception.   *)
(***************************************************************************)
SetItemOn(d, key, value) ==
    IF DictGet(d, key, "None") = "None"
    THEN [data |-> DictSet(d, key, value), exc |-> "none"]
    ELSE IF d[key] # value
         THEN [data |-> d, exc |-> "AssertionError"]
         ELSE [data |-> d, exc |-> "none"]

(***************************************************************************)
(* The loop of add_file over a decoded .json object: iterating a dict      *)
(* yields its keys, and "for k, v in data" unpacks each key string into    *)
(* two characters; a key of any other length raises ValueError.  The loop  *)
(* stops at the first exception and keeps what it bound before.            *)
(***************************************************************************)
RECURSIVE BindLoop(_, _, _)
BindLoop(d, obj, i) ==
    IF i > Len(obj) THEN [data |-> d, exc |-> "none"]
    ELSE LET key == obj[i][1]
         IN IF Len(key) # 2 THEN [data |-> d, exc |-> "ValueError"]
            ELSE LET r == SetItemOn(d, <<key[1]>>, key[2])
                 IN IF r.exc # "none" THEN r ELSE BindLoop(r.data, obj, i + 1)

(***************************************************************************)
(* Model.add_file: the fields afterwards and the exception.                *)
(***************************************************************************)
AddFileNoDzn(d, incl, path, obj) ==
    IF ~Exists(path) THEN [data |-> d, includes |-> incl, exc |-> "AssertionError"]
    ELSE IF Suffix(path) = <<".", "json">>
    THEN LET r == BindLoop(d, obj, 1)
         IN [data |-> r.data, includes |-> incl, exc |-> r.exc]
    ELSE IF Suffix(path) \notin {<<".", "mzn">>}
    THEN [data |-> d, includes |-> incl, exc |-> "NameError"]
    ELSE [data |-> d, includes |-> Append(incl, path), exc |-> "none"]

AddFileOn(d, incl, path, obj) ==
    IF ~Exists(path) THEN [data |-> d, includes |-> incl, exc |-> "AssertionError"]
    ELSE IF Suffix(path) = <<".", "json">>
    THEN LET r == BindLoop(d, obj, 1)
         IN [data |-> r.data, includes |-> incl, exc |-> r.exc]
    ELSE IF Suffix(path) \notin {<<".", "mzn">>, <<".", "dzn">>}
    THEN [data |-> d, includes |-> incl, exc |-> "NameError"]
    ELSE [data |-> d, includes |-> Append(incl, path), exc |-> "none"]

(***************************************************************************)
(* Model.add_string: the fragment list afterwards.                         *)
(***************************************************************************)
AddStringSkipEmpty(frags, code) == IF code = "" THEN frags ELSE Append(frags, code)

AddStringOn(frags, code) == Append(frags, code)

(***************************************************************************)
(* Model.__copy__: builds the local object copy and falls off the end of   *)
(* the function without returning it, so the call evaluates to None.       *)
(***************************************************************************)
NoneObject == [kind |-> "None", data |-> EmptyDict, includes |-> <<>>,
               code_fragments |-> <<>>]

ModelObject(d, incl, frags) == [kind |-> "Model", data |-> d, includes |-> incl,
                                code_fragments |-> frags]

CopyOf(d, incl, frags) ==
    LET copy == ModelObject(d, incl, frags)
    IN NoneObject

(***************************************************************************)
(* The parameter model as a state machine.                                 *)
(***************************************************************************)
NoOp == [op |-> "init", key |-> <<>>, value |-> "None", path |-> <<>>,
         obj |-> <<>>, text |-> "", data |-> EmptyDict, includes |-> <<>>,
         code_fragments |-> <<>>]

Pre(op) == [NoOp EXCEPT !.op = op, !.data = data, !.includes = includes,
                        !.code_fragments = code_fragments]

DecodeIdle == pc = "idle" /\ arg = "None" /\ res = "None"

InitModel ==
    /\ data = EmptyDict
    /\ includes = <<>>
    /\ code_fragments = <<>>
    /\ raised = "none"
    /\ ret = NoneObject
    /\ lastOp = NoOp
    /\ sentTexts = <<>>
    /\ addedPaths = <<>>
    /\ ncalls = 0
    /\ DecodeIdle

SetItem(key, value) ==
    /\ ncalls < MaxCalls
    /\ LET r == SetItemOn(data, key, value)
       IN /\ data' = r.data
          /\ raised' = r.exc
    /\ lastOp' = [Pre("setitem") EXCEPT !.key = key, !.value = value]
    /\ ncalls' = ncalls + 1
    /\ UNCHANGED <<includes, code_fragments, ret, sentTexts, addedPaths>>
    /\ UNCHANGED decodeVars

AddFile(path, obj) ==
    /\ ncalls < MaxCalls
    \* the file's content is read only when an existing .json file is loaded
    /\ (Suffix(path) # <<".", "json">> \/ ~Exists(path)) => obj = <<>>
    /\ LET r == AddFileOn(data, includes, path, obj)
       IN /\ data' = r.data
          /\ includes' = r.includes
          /\ raised' = r.exc
          /\ addedPaths' = IF r.exc = "none" /\ Suffix(path) \in {<<".", "mzn">>, <<".", "dzn">>}
                           THEN Append(addedPaths, path) ELSE addedPaths
    /\ lastOp' = [Pre("add_file") EXCEPT !.path = path, !.obj = obj]
    /\ ncalls' = ncalls + 1
    /\ UNCHANGED <<code_fragments, ret, sentTexts>>
    /\ UNCHANGED decodeVars

AddString(code) ==
    /\ ncalls < MaxCalls
    /\ code_fragments' = AddStringOn(code_fragments, code)
    /\ raised' = "none"
    /\ sentTexts' = Append(sentTexts, code)
    /\ lastOp' = [Pre("add_string") EXCEPT !.text = code]
    /\ ncalls' = ncalls + 1
    /\ UNCHANGED <<data, includes, ret, addedPaths>>
    /\ UNCHANGED decodeVars

Copy ==
    /\ ncalls < MaxCalls
    /\ ret' = CopyOf(data, includes, code_fragments)
    /\ raised' = "none"
    /\ lastOp' = Pre("copy")
    /\ ncalls' = ncalls + 1
    /\ UNCHANGED <<data, includes, code_fragments, sentTexts, addedPaths>>
    /\ UNCHANGED decodeVars

NextModel ==
    \/ \E key \in Keys, value \in Values : SetItem(key, value)
    \/ \E path \in Paths, obj \in JsonObjects : AddFile(path, obj)
    \/ \E code \in Texts : AddString(code)
    \/ Copy

SpecModel == InitModel /\ [][NextModel]_vars

(***************************************************************************)
(* Binary64 arithmetic, as far as float(value) * 1000000 and int() need    *)
(* it.  A natural number is a sequence of limbs in base 2^15, least        *)
(* significant first, without leading zero limbs; a positive float is      *)
(* m * 2^e with m < 2^53 such a number.                                    *)
(***************************************************************************)
Base == 2^15

RECURSIVE Trim(_)
Trim(x) == IF x # <<>> /\ x[Len(x)] = 0 THEN Trim(SubSeq(x, 1, Len(x) - 1)) ELSE x

RECURSIVE FromInt(_)
FromInt(n) == IF n = 0 THEN <<>> ELSE <<n % Base>> \o FromInt(n \div Base)

RECURSIVE ToInt(_)
ToInt(x) == IF x = <<>> THEN 0 ELSE x[1] + Base * ToInt(Tail(x))

RECURSIVE MulSmallFrom(_, _, _, _)
MulSmallFrom(x, m, c, i) ==
    IF i > Len(x) THEN (IF c = 0 THEN <<>> ELSE <<c>>)
    ELSE <<(x[i] * m + c) % Base>> \o MulSmallFrom(x, m, (x[i] * m + c) \div Base, i + 1)

MulSmall(x, m) == Trim(MulSmallFrom(x, m, 0, 1))

\* one step of the long division by d: t is the running remainder with the
\* next limb brought down, q the quotient limbs found so far
DivStep(t, d, q) == [q |-> <<t \div d>> \o q, r |-> t % d]

RECURSIVE DivSmallFrom(_, _, _, _)
DivSmallFrom(x, d, i, acc) ==
    IF i = 0 THEN acc
    ELSE DivSmallFrom(x, d, i - 1, DivStep(acc.r * Base + x[i], d, acc.q))

TrimQuotient(qr) == [q |-> Trim(qr.q), r |-> qr.r]

\* quotient q and remainder r of x by d, 0 < d <= 2^15
DivSmall(x, d) == TrimQuotient(DivSmallFrom(x, d, Len(x), [q |-> <<>>, r |-> 0]))

AddOne(x) == MulSmallFrom(x, 1, 1, 1)

IsOdd(x) == x # <<>> /\ x[1] % 2 = 1

\* number of bits of a limb v, 0 < v < 2^15
LimbBits(v) == CHOOSE b \in 1..15 : 2^(b - 1) <= v /\ v < 2^b

BitLen(x) == IF x = <<>> THEN 0 ELSE 15 * (Len(x) - 1) + LimbBits(x[Len(x)])

Shifted(d, sticky) == [q |-> d.q, sticky |-> sticky \/ d.r # 0]

\* x shifted right by n bits: whole limbs are dropped first, then the rest is
\* divided by 2^(n mod 15); sticky tells whether a nonzero bit was lost
ShiftRight(x, n, sticky) ==
    Shifted(DivSmall(SubSeq(x, (n \div 15) + 1, Len(x)), 2^(n % 15)),
            sticky \/ \E i \in DOMAIN x : i <= n \div 15 /\ x[i] # 0)

\* round to nearest, ties to even: d2 is the 54-bit number halved, its
\* remainder the rounding bit
RoundHalf(d2, sticky, h) ==
    [m |-> IF d2.r = 1 /\ (sticky \/ IsOdd(d2.q)) THEN AddOne(d2.q) ELSE d2.q,
     h |-> h]

RoundShifted(s, h) == RoundHalf(DivSmall(s.q, 2), s.sticky, h)

\* d.q = m * 2^h rounded to a 53-bit significand m; d.sticky says that d.q
\* already lost a nonzero fraction.
Round53(d) ==
    IF BitLen(d.q) <= 53 THEN [m |-> d.q, h |-> 0]
    ELSE RoundShifted(ShiftRight(d.q, BitLen(d.q) - 54, d.sticky), BitLen(d.q) - 53)

TenthOf(d, s) == [q |-> d.q, sticky |-> s.sticky \/ d.r # 0]

RECURSIVE DivTenTimes(_, _)
DivTenTimes(s, k) ==
    IF k = 0 THEN s ELSE DivTenTimes(TenthOf(DivSmall(s.q, 10), s), k - 1)

RECURSIVE MulTimes(_, _, _)
MulTimes(x, m, n) == IF n = 0 THEN x ELSE MulTimes(MulSmall(x, m), m, n - 1)

WithExponent(r, e) == [m |-> r.m, e |-> r.h + e]

\* The binary64 nearest to n / 10^k (n >= 0), as float() of a decimal string
\* gives it: n * 2^84 / 10^k has at least 54 bits for the literals used here.
NearestFloat(n, k) ==
    IF n = 0 THEN [m |-> <<>>, e |-> 0]
    ELSE WithExponent(
             Round53(DivTenTimes([q |-> MulTimes(FromInt(n), 2^14, 6),
                                  sticky |-> FALSE], k)),
             0 - 14 * 6)

\* int() of a non-negative float: the fraction is cut off.
FloatTrunc(x) ==
    IF x.e >= 0 THEN ToInt(MulTimes(x.m, 2, x.e)) ELSE ToInt(ShiftRight(x.m, 0 - x.e, FALSE).q)

(***************************************************************************)
(* Python's int(str) and float(str) on strings over digits, "." , "-" and  *)
(* other characters (written "x").                                         *)
(***************************************************************************)
DigitChars == <<"0", "1", "2", "3", "4", "5", "6", "7", "8", "9">>

Digits == {DigitChars[i] : i \in DOMAIN DigitChars}

DigitVal(c) == (CHOOSE i \in DOMAIN DigitChars : DigitChars[i] = c) - 1

RECURSIVE DigitsToNat(_)
DigitsToNat(ds) ==
    IF ds = <<>> THEN 0
    ELSE 10 * DigitsToNat(SubSeq(ds, 1, Len(ds) - 1)) + DigitVal(ds[Len(ds)])

AllDigits(ds) == \A i \in DOMAIN ds : ds[i] \in Digits

FirstIndexOf(s, c) ==
    IF \E i \in DOMAIN s : s[i] = c
    THEN CHOOSE i \in DOMAIN s : s[i] = c /\ \A j \in DOMAIN s : s[j] = c => i <= j
    ELSE 0

\* The pieces of a numeric literal: sign, digits before and after the first ".".
Literal(raw) ==
    LET neg == raw # <<>> /\ raw[1] = "-"
        body == IF neg THEN Tail(raw) ELSE raw
        dot == FirstIndexOf(body, ".")
    IN [neg |-> neg,
        dotted |-> dot # 0,
        ip |-> IF dot = 0 THEN body ELSE SubSeq(body, 1, dot - 1),
        fp |-> IF dot = 0 THEN <<>> ELSE SubSeq(body, dot + 1, Len(body))]

IntParses(raw) ==
    LET l == Literal(raw) IN ~l.dotted /\ l.ip # <<>> /\ AllDigits(l.ip)

IntOf(raw) ==
    LET l == Literal(raw)
    IN IF l.neg THEN 0 - DigitsToNat(l.ip) ELSE DigitsToNat(l.ip)

FloatParses(raw) ==
    LET l == Literal(raw)
    IN AllDigits(l.ip) /\ AllDigits(l.fp) /\ Len(l.ip) + Len(l.fp) > 0

WithSign(x, neg) == [neg |-> neg, m |-> x.m, e |-> x.e]

FloatOfLiteral(l) == WithSign(NearestFloat(DigitsToNat(l.ip \o l.fp), Len(l.fp)), l.neg)

FloatOf(raw) == FloatOfLiteral(Literal(raw))

(***************************************************************************)
(* int(float(value) * 1000000): the microseconds of a duration.            *)
(***************************************************************************)
Million == 1000000

\* float.__mul__ by 1000000: the exact product, rounded once.
FloatTimesMillion(x) ==
    WithSign(WithExponent(Round53([q |-> MulSmall(MulSmall(x.m, 1000), Million \div 1000),
                                   sticky |-> FALSE]), x.e),
             x.neg)

SignedTrunc(y) == IF y.neg THEN 0 - FloatTrunc(y) ELSE FloatTrunc(y)

Micros(raw) == SignedTrunc(FloatTimesMillion(FloatOf(raw)))

(***************************************************************************)
(* StatisticTypes.  A statistic's name is the sequence of its camel-case   *)
(* words, so that the test "time" in name or "Time" in name is a search    *)
(* for a word; no word of the names below contains either as a part.       *)
(***************************************************************************)
IntStats ==
    {<<"nodes">>, <<"failures">>, <<"restarts">>, <<"variables">>, 
     <<"int", "Variables">>, <<"bool", "Variables">>, 
     <<"float", "Variables">>, <<"set", "Variables">>, <<"propagators">>, 
     <<"propagations">>, <<"peak", "Depth">>, <<"nogoods">>, 
     <<"backjumps">>, <<"paths">>, <<"flat", "Bool", "Vars">>, 
     <<"flat", "Float", "Vars">>, <<"flat", "Int", "Vars">>, 
     <<"flat", "Set", "Vars">>, <<"flat", "Bool", "Constraints">>, 
     <<"flat", "Float", "Constraints">>, <<"flat", "Int", "Constraints">>, 
     <<"flat", "Set", "Constraints">>, 
     <<"evaluated", "Reified", "Constraints">>, 
     <<"evaluated", "Half", "Reified", "Constraints">>, 
     <<"eliminated", "Implications">>, 
     <<"eliminated", "Linear", "Constraints">>}

FloatStats == {<<"peak", "Mem">>}

TimedeltaStats == {<<"init", "Time">>, <<"solve", "Time">>, <<"flat", "Time">>}

StrStats == {<<"method">>}

StatisticTypes ==
    [n \in IntStats \cup FloatStats \cup TimedeltaStats \cup StrStats |->
        IF n \in IntStats THEN "int"
        ELSE IF n \in FloatStats THEN "float"
        ELSE IF n \in TimedeltaStats THEN "timedelta"
        ELSE "str"]

Contains(name, word) == \E i \in DOMAIN name : name[i] = word

Stat(type, val) == [type |-> type, val |-> val]

(***************************************************************************)
(* set_stat: the statistics dict afterwards and the exception.  A failing  *)
(* conversion raises before the assignment to stats[name].                 *)
(***************************************************************************)
StoreDuration(stats, name, value) ==
    IF FloatParses(value)
    THEN [stats |-> DictSet(stats, name, Stat("Duration", Micros(value))), exc |-> "none"]
    ELSE [stats |-> stats, exc |-> "ValueError"]

StoreTyped(stats, name, tt, value) ==
    IF tt = "int" THEN
        IF IntParses(value)
        THEN [stats |-> DictSet(stats, name, Stat("Integer", IntOf(value))), exc |-> "none"]
        ELSE [stats |-> stats, exc |-> "ValueError"]
    ELSE IF tt = "float" THEN
        IF FloatParses(value)
        THEN [stats |-> DictSet(stats, name, Stat("Real", FloatOf(value))), exc |-> "none"]
        ELSE [stats |-> stats, exc |-> "ValueError"]
    ELSE [stats |-> DictSet(stats, name, Stat("Text", value)), exc |-> "none"]

SetStatLowercaseOnly(stats, name, value) ==
    LET tt == DictGet(StatisticTypes, name, "str")
    IN IF tt = "timedelta" THEN StoreDuration(stats, name, value)
       ELSE IF tt = "str" /\ Contains(name, "time")
       THEN StoreDuration(stats, name, value)
       ELSE StoreTyped(stats, name, tt, value)

SetStatOn(stats, name, value) ==
    LET tt == DictGet(StatisticTypes, name, "str")
    IN IF tt = "timedelta" THEN StoreDuration(stats, name, value)
       ELSE IF tt = "str" /\ (Contains(name, "time") \/ Contains(name, "Time"))
       THEN StoreDuration(stats, name, value)
       ELSE StoreTyped(stats, name, tt, value)

(***************************************************************************)
(* set_stat as a state machine: one call on a name and a raw value.        *)
(***************************************************************************)
UnknownStats == {<<"my", "Custom", "Time">>, <<"my", "Custom", "Count">>,
                 <<"time">>, <<"run", "time">>, <<"TIME">>}

StatNames == DOMAIN StatisticTypes \cup UnknownStats

FracDigits == {"0", "1", "9"}

Fractions ==
    {<<>>} \cup {<<".">> \o f : f \in UNION {[1..n -> FracDigits] : n \in 0..MaxFracLen}}

Raws ==
    {sign \o ip \o f : sign \in {<<>>, <<"-">>}, ip \in {<<"0">>, <<"1">>, <<"2">>},
                       f \in Fractions}
    \cup {<<"1", ".", "2", "3", "4", "5", "6", "7">>,
          <<"1", ".", "2", "3", "4", "5", "6", "7", "8", "9">>,
          <<".", "5">>, <<>>, <<"x">>, <<"1", "x">>, <<"-">>, <<"1", ".", "2", ".", "3">>}

StatDicts == {EmptyDict, [n \in {<<"nodes">>} |-> Stat("Integer", 7)]}

ModelIdle ==
    /\ data = EmptyDict
    /\ includes = <<>>
    /\ code_fragments = <<>>
    /\ raised = "none"
    /\ ret = NoneObject
    /\ lastOp = NoOp
    /\ sentTexts = <<>>
    /\ addedPaths = <<>>
    /\ ncalls = 0

InitStat ==
    /\ ModelIdle
    /\ pc = "call"
    /\ arg \in [stats : StatDicts, name : StatNames, value : Raws]
    /\ res = [stats |-> EmptyDict, exc |-> "none"]

SetStat ==
    /\ pc = "call"
    /\ res' = SetStatOn(arg.stats, arg.name, arg.value)
    /\ pc' = "done"
    /\ UNCHANGED arg
    /\ UNCHANGED modelVars

NextStat == SetStat

SpecStat == InitStat /\ [][NextStat]_vars

(***************************************************************************)
(* Status.from_output.  The output is a sequence of pieces: "=====" (five  *)
(* equals signs), "-----" (five dashes), the words of the status markers,  *)
(* and "x" for any other text; b"..." in output is a search for the        *)
(* marker's pieces in a row.                                               *)
(***************************************************************************)
Pieces == {"=====", "-----", "ERROR", "UNKNOWN", "UNSATISFIABLE",
           "UNSATorUNBOUNDED", "UNBOUNDED", "x"}

Methods == {"SATISFY", "MINIMIZE", "MAXIMIZE"}

In(marker, output) ==
    \E i \in 0..(Len(output) - Len(marker)) :
        \A j \in DOMAIN marker : output[i + j] = marker[j]

Marker(word) == <<"=====", word, "=====">>

TenEquals == <<"=====", "=====">>

TenDashes == <<"-----", "-----">>

FromOutputSolutionFirst(output, method) ==
    IF In(TenEquals, output) THEN
        (IF method = "SATISFY" THEN "ALL_SOLUTIONS" ELSE "OPTIMAL_SOLUTION")
    ELSE IF In(Marker("ERROR"), output) THEN "ERROR"
    ELSE IF In(Marker("UNKNOWN"), output) THEN "UNKNOWN"
    ELSE IF In(Marker("UNSATISFIABLE"), output) THEN "UNSATISFIABLE"
    ELSE IF In(Marker("UNSATorUNBOUNDED"), output) \/ In(Marker("UNBOUNDED"), output)
    THEN "UNBOUNDED"
    ELSE IF In(TenDashes, output) THEN "SATISFIED"
    ELSE "None"

FromOutput(output, method) ==
    IF In(Marker("ERROR"), output) THEN "ERROR"
    ELSE IF In(Marker("UNKNOWN"), output) THEN "UNKNOWN"
    ELSE IF In(Marker("UNSATISFIABLE"), output) THEN "UNSATISFIABLE"
    ELSE IF In(Marker("UNSATorUNBOUNDED"), output) \/ In(Marker("UNBOUNDED"), output)
    THEN "UNBOUNDED"
    ELSE IF method = "SATISFY" THEN
        (IF In(TenEquals, output) THEN "ALL_SOLUTIONS"
         ELSE IF In(TenDashes, output) THEN "SATISFIED"
         ELSE "None")
    ELSE
        (IF In(TenEquals, output) THEN "OPTIMAL_SOLUTION"
         ELSE IF In(TenDashes, output) THEN "SATISFIED"
         ELSE "None")

Outputs == UNION {[1..n -> Pieces] : n \in 0..MaxOutputLen}

InitStatus ==
    /\ ModelIdle
    /\ pc = "call"
    /\ arg \in [output : Outputs, method : Methods]
    /\ res = "None"

ResolveStatus ==
    /\ pc = "call"
    /\ res' = FromOutput(arg.output, arg.method)
    /\ pc' = "done"
    /\ UNCHANGED arg
    /\ UNCHANGED modelVars

NextStatus == ResolveStatus

SpecStatus == InitStatus /\ [][NextStatus]_vars

(***************************************************************************)
(* Result.objective: the value returned and the exception.  A solution is  *)
(* None, a dict, or a list of dicts; solution[-1] of an empty list raises  *)
(* IndexError.                                                             *)
(***************************************************************************)
NoSolution == [kind |-> "None", d |-> EmptyDict, l |-> <<>>]

DictSolution(d) == [kind |-> "dict", d |-> d, l |-> <<>>]

ListSolution(l) == [kind |-> "list", d |-> EmptyDict, l |-> l]

Objective(solution) ==
    IF solution.kind # "None" THEN
        IF solution.kind = "list" THEN
            IF solution.l = <<>> THEN [val |-> "None", exc |-> "IndexError"]
            ELSE [val |-> DictGet(solution.l[Len(solution.l)], <<"objective">>, "None"),
                  exc |-> "none"]
        ELSE [val |-> DictGet(solution.d, <<"objective">>, "None"), exc |-> "none"]
    ELSE [val |-> "None", exc |-> "none"]

SolutionKeys == {<<"x">>, <<"objective">>}

SolutionValues == {"3", "10"}

Mappings == UNION {[ks -> SolutionValues] : ks \in SUBSET SolutionKeys}

Solutions ==
    {NoSolution} \cup {DictSolution(d) : d \in Mappings}
    \cup {ListSolution(l) : l \in UNION {[1..n -> Mappings] : n \in 0..MaxSolutions}}

InitResult ==
    /\ ModelIdle
    /\ pc = "call"
    /\ arg \in Solutions
    /\ res = [val |-> "None", exc |-> "none"]

GetObjective ==
    /\ pc = "call"
    /\ res' = Objective(arg)
    /\ pc' = "done"
    /\ UNCHANGED arg
    /\ UNCHANGED modelVars

NextResult == GetObjective

SpecResult == InitResult /\ [][NextResult]_vars

(***************************************************************************)
(* parse_solution.  A chunk is a sequence of lines:                        *)
(*   stat     %%%mzn-stat: <name>=<value>                                  *)
(*   elapsed  % time elapsed: <value> s                                    *)
(*   dashes   ----------                                                   *)
(*   status   ==========                                                   *)
(*   comment  % any other comment                                          *)
(*   json     the solution object, written on one line                     *)
(*   text     any other text without "{"                                   *)
(***************************************************************************)
Line(k, name, value) == [k |-> k, name |-> name, value |-> value]

\* rb"% time elapsed: (\d+.\d+) s": digits, any one character, digits.
ElapsedMatches(value) ==
    \E i \in 2..(Len(value) - 1) :
        /\ AllDigits(SubSeq(value, 1, i - 1))
        /\ AllDigits(SubSeq(value, i + 1, Len(value)))

\* one round of the loop over the %%%mzn-stat matches: lines other than
\* statistics lines are no match
StatMatch(stats, line) ==
    IF line.k = "stat" THEN SetStatOn(stats, line.name, line.value)
    ELSE [stats |-> stats, exc |-> "none"]

\* the loop over the matches; set_stat's exception ends it
RECURSIVE SetStats(_, _, _)
SetStats(r, lines, i) ==
    IF r.exc # "none" \/ i > Len(lines) THEN r
    ELSE SetStats(StatMatch(r.stats, lines[i]), lines, i + 1)

\* re.search: the first elapsed-time line the pattern matches, 0 if none
ElapsedIndex(lines) ==
    LET hits == {i \in DOMAIN lines : lines[i].k = "elapsed" /\ ElapsedMatches(lines[i].value)}
    IN IF hits = {} THEN 0 ELSE CHOOSE i \in hits : \A j \in hits : i <= j

\* the elapsed-time line, once the statistics lines are done
SetElapsed(r, lines, e) ==
    IF r.exc # "none" \/ e = 0 THEN r
    ELSE IF FloatParses(lines[e].value)
         THEN [stats |-> DictSet(r.stats, <<"time">>,
                                 Stat("Duration", Micros(lines[e].value))),
               exc |-> "none"]
         ELSE [stats |-> r.stats, exc |-> "ValueError"]

ParseStatistics(lines) ==
    SetElapsed(SetStats([stats |-> EmptyDict, exc |-> "none"], lines, 1), lines,
               ElapsedIndex(lines))

\* the two re.sub calls: marker lines become empty, comment lines vanish
Body(lines) == SelectSeq(lines, LAMBDA l : l.k \in {"json", "text"})

HasBrace(body) == \E i \in DOMAIN body : body[i].k = "json"

\* json.loads(raw, cls=MZNJSONDecoder): the body must be one object and
\* nothing else; the decoder class is taken to decode an object to a dict
\* of its fields in document order, as the standard decoder does
JsonLoads(body, obj) ==
    IF Len(body) = 1 /\ body[1].k = "json"
    THEN [fields |-> obj, exc |-> "none"]
    ELSE [fields |-> <<>>, exc |-> "JSONDecodeError"]

StartsWithUnderscore(k) == k # <<>> /\ k[1] = "_"

\* the loop over dict.items(), in the object's field order
RECURSIVE FilterFields(_, _, _)
FilterFields(sol, fields, i) ==
    IF i > Len(fields) THEN sol
    ELSE LET k == fields[i][1]
             v == fields[i][2]
             next == IF ~StartsWithUnderscore(k) THEN DictSet(sol, k, v)
                     ELSE IF k = <<"_", "objective">>
                     THEN DictSet(sol, <<"objective">>, v)
                     ELSE sol
         IN FilterFields(next, fields, i + 1)

FilterDropUnderscore(fields) ==
    LET keep == SelectSeq(fields, LAMBDA f : ~StartsWithUnderscore(f[1]))
    IN [k \in {keep[i][1] : i \in DOMAIN keep} |->
           keep[CHOOSE i \in DOMAIN keep : keep[i][1] = k][2]]

FilterSolution(fields) == FilterFields(EmptyDict, fields, 1)

\* the solution part of parse_solution, given the statistics st
SolutionWith(st, body, obj) ==
    IF st.exc # "none"
    THEN [solution |-> NoSolution, statistics |-> EmptyDict, exc |-> st.exc]
    ELSE IF ~HasBrace(body)
    THEN [solution |-> NoSolution, statistics |-> st.stats, exc |-> "none"]
    ELSE IF JsonLoads(body, obj).exc # "none"
    THEN [solution |-> NoSolution, statistics |-> EmptyDict,
          exc |-> JsonLoads(body, obj).exc]
    ELSE [solution |-> DictSolution(FilterSolution(JsonLoads(body, obj).fields)),
          statistics |-> st.stats, exc |-> "none"]

ParseSolution(lines, obj) == SolutionWith(ParseStatistics(lines), Body(lines), obj)

\* the fields an object is built from: a decision variable x, a decision
\* variable named objective, the solver's _objective and another internal field
FieldChoices ==
    {<<(<<"x">>), "3">>, <<(<<"objective">>), "3">>, <<(<<"objective">>), "10">>,
     <<(<<"_", "objective">>), "3">>, <<(<<"_", "objective">>), "10">>,
     <<(<<"_", "other">>), "3">>}

\* The objects a solution body can decode to: fields in document order, names distinct.
Fields ==
    {o \in UNION {[1..n -> FieldChoices] : n \in 0..MaxJsonFields} :
        \A i, j \in DOMAIN o : i # j => o[i][1] # o[j][1]}

ChunkLines ==
    {Line("stat", <<"nodes">>, <<"1">>),
     Line("stat", <<"solve", "Time">>, <<"2", ".", "0", "1">>),
     Line("stat", <<"nodes">>, <<"x">>),
     Line("elapsed", <<>>, <<"1", ".", "5">>),
     Line("elapsed", <<>>, <<"1", "x", "5">>),
     Line("dashes", <<>>, <<>>),
     Line("status", <<>>, <<>>),
     Line("comment", <<>>, <<>>),
     Line("json", <<>>, <<>>),
     Line("text", <<>>, <<>>)}

Chunks == UNION {[1..n -> ChunkLines] : n \in 0..MaxLines}

PrintsObject(lines) == \E i \in DOMAIN lines : lines[i].k = "json"

\* the object matters only to a chunk that prints it
ParseInputs ==
    {[lines |-> ls, obj |-> <<>>] : ls \in {c \in Chunks : ~PrintsObject(c)}}
    \cup [lines : {c \in Chunks : PrintsObject(c)}, obj : Fields]

InitParse ==
    /\ ModelIdle
    /\ pc = "call"
    /\ arg \in ParseInputs
    /\ res = [solution |-> NoSolution, statistics |-> EmptyDict, exc |-> "none"]

Parse ==
    /\ pc = "call"
    /\ res' = ParseSolution(arg.lines, arg.obj)
    /\ pc' = "done"
    /\ UNCHANGED arg
    /\ UNCHANGED modelVars

NextParse == Parse

SpecParse == InitParse /\ [][NextParse]_vars

(***************************************************************************)
(* Claims about the parameter model.                                       *)
(***************************************************************************)

\* C1: bind (Model.__setitem__) is write-once-unless-identical: binding an
\* unbound name stores the value; binding a name bound to an equal value
\* changes nothing; binding a name bound to a different value fails with the
\* conflict error and leaves the mapping unchanged.
C1_BindWriteOnce ==
    lastOp.op = "setitem" =>
        LET k == lastOp.key
            v == lastOp.value
            before == lastOp.data
        IN /\ k \notin DOMAIN before =>
                  data = DictSet(before, k, v) /\ raised = "none"
           /\ (k \in DOMAIN before /\ before[k] = v) =>
                  data = before /\ raised = "none"
           /\ (k \in DOMAIN before /\ before[k] # v) =>
                  data = before /\ raised = "AssertionError"

\* C2: duplicate() (Model.__copy__) yields a model whose bound-parameter
\* mapping, include list and fragment list equal the original's at the time
\* of the call.
C2_CopyEqualsOriginal ==
    lastOp.op = "copy" =>
        ret = ModelObject(lastOp.data, lastOp.includes, lastOp.code_fragments)

\* C4: add_source_file on an existing .json file that decodes to an object
\* binds every top-level field: with no field conflicting with an existing
\* binding, afterwards every field name is bound to its value and the
\* include list is unchanged; with a conflicting field the call fails with
\* the conflict error.
C4_JsonFieldsBound ==
    (lastOp.op = "add_file" /\ Exists(lastOp.path)
        /\ Suffix(lastOp.path) = <<".", "json">>) =>
        LET obj == lastOp.obj
            before == lastOp.data
            conflict == \E i \in DOMAIN obj :
                            /\ obj[i][1] \in DOMAIN before
                            /\ before[obj[i][1]] # obj[i][2]
        IN /\ ~conflict =>
                  /\ raised = "none"
                  /\ \A i \in DOMAIN obj :
                         obj[i][1] \in DOMAIN data /\ data[obj[i][1]] = obj[i][2]
                  /\ includes = lastOp.includes
           /\ conflict => raised = "AssertionError"

\* C5: add_source_file dispatches on the extension of an existing path: a
\* .mzn or .dzn path is appended as the last element of the include list,
\* mapping and fragment list unchanged; a path whose extension is none of
\* .mzn, .dzn, .json fails with the unsupported-format error and leaves the
\* include list, fragment list and mapping unchanged.
C5_AddFileDispatch ==
    (lastOp.op = "add_file" /\ Exists(lastOp.path)) =>
        LET ext == Suffix(lastOp.path)
        IN /\ ext \in {<<".", "mzn">>, <<".", "dzn">>} =>
                  /\ raised = "none"
                  /\ includes = Append(lastOp.includes, lastOp.path)
                  /\ data = lastOp.data
                  /\ code_fragments = lastOp.code_fragments
           /\ ext \notin {<<".", "mzn">>, <<".", "dzn">>, <<".", "json">>} =>
                  /\ raised = "NameError"
                  /\ includes = lastOp.includes
                  /\ data = lastOp.data
                  /\ code_fragments = lastOp.code_fragments

\* C5 witness: a .dzn file was appended behind an earlier include of a model
\* that already holds a binding.
C5_Witness ==
    /\ lastOp.op = "add_file"
    /\ Suffix(lastOp.path) = <<".", "dzn">>
    /\ Len(lastOp.includes) = 1
    /\ Len(includes) = 2
    /\ DOMAIN data # {}

\* C10: the accumulator lists are append-only and in call order: the
\* fragment list is the sequence of texts passed to add_source_text, the
\* include list the sequence of accepted .mzn/.dzn paths, the lists before a
\* call are prefixes of the lists after it, and add_source_text appends its
\* text and changes neither the include list nor the mapping.
C10_AppendOnlyInCallOrder ==
    /\ code_fragments = sentTexts
    /\ includes = addedPaths
    /\ IsPrefix(lastOp.code_fragments, code_fragments)
    /\ IsPrefix(lastOp.includes, includes)
    /\ lastOp.op = "add_string" =>
           /\ code_fragments = Append(lastOp.code_fragments, lastOp.text)
           /\ includes = lastOp.includes
           /\ data = lastOp.data

\* C10 witness: an empty text was appended behind an earlier fragment of a
\* model that has an include.
C10_Witness ==
    /\ lastOp.op = "add_string"
    /\ lastOp.text = ""
    /\ Len(code_fragments) = 2
    /\ Len(includes) = 1

(***************************************************************************)
(* Claims about the statistics decoder.                                    *)
(***************************************************************************)
\* The result type the schema and the time-word heuristic select for a name.
SelectedType(name) ==
    LET tt == IF name \in DOMAIN StatisticTypes THEN StatisticTypes[name] ELSE "str"
    IN IF tt = "timedelta" THEN "Duration"
       ELSE IF tt = "str"
            THEN (IF Contains(name, "time") \/ Contains(name, "Time")
                  THEN "Duration" ELSE "Text")
       ELSE IF tt = "int" THEN "Integer" ELSE "Real"

WellFormed(type, raw) ==
    IF type = "Text" THEN TRUE
    ELSE IF type = "Integer" THEN IntParses(raw)
    ELSE FloatParses(raw)

ExactMicros(raw) ==
    LET l == Literal(raw)
        n == DigitsToNat(l.ip \o l.fp)
        k == Len(l.fp)
        us == IF k <= 6 THEN n * 10^(6 - k) ELSE n \div 10^(k - 6)
    IN IF l.neg THEN 0 - us ELSE us

\* C7: a Duration is the decimal value of the raw string times 1,000,000,
\* truncated toward zero, computed on the exact decimal value.
C7_ExactTruncation ==
    (pc = "done" /\ res.exc = "none" /\ SelectedType(arg.name) = "Duration") =>
        res.stats[arg.name].val = ExactMicros(arg.value)

FieldIndex(fields, name) ==
    IF \E i \in DOMAIN fields : fields[i][1] = name
    THEN CHOOSE i \in DOMAIN fields : fields[i][1] = name
    ELSE 0

PlainNames(fields) ==
    {fields[i][1] : i \in {j \in DOMAIN fields : fields[j][1][1] # "_"}}

StatLinesReturned ==
    \A i \in DOMAIN arg.lines :
        arg.lines[i].k = "stat" =>
            /\ arg.lines[i].name \in DOMAIN res.statistics
            /\ res.statistics[arg.lines[i].name].type = SelectedType(arg.lines[i].name)

\* C8 as stated, for a chunk that decodes without error: with no "{" in the
\* body the solution is absent and the statistics of the chunk's statistics
\* lines are returned; otherwise the mapping holds exactly every field whose
\* name does not start with "_", name and value unchanged, and an objective
\* entry holding the value of _objective when that field is present.
C8_FieldsUnchangedAndObjective ==
    (pc = "done" /\ res.exc = "none") =>
        LET fields == arg.obj
            u == FieldIndex(fields, <<"_", "objective">>)
        IN IF ~HasBrace(Body(arg.lines))
           THEN res.solution = NoSolution /\ StatLinesReturned
           ELSE /\ res.solution.kind = "dict"
                /\ DOMAIN res.solution.d =
                       PlainNames(fields) \cup (IF u # 0 THEN {<<"objective">>} ELSE {})
                /\ \A i \in DOMAIN fields :
                       fields[i][1] \in PlainNames(fields) =>
                           res.solution.d[fields[i][1]] = fields[i][2]
                /\ u # 0 => res.solution.d[<<"objective">>] = fields[u][2]

\* C8 amended: as C8, except that when the object holds both a field named
\* objective and a field named _objective, the objective entry holds the
\* value of whichever of the two comes later in the object.
C8_LaterObjectiveWins ==
    (pc = "done" /\ res.exc = "none") =>
        LET fields == arg.obj
            u == FieldIndex(fields, <<"_", "objective">>)
            o == FieldIndex(fields, <<"objective">>)
            last == IF u > o THEN u ELSE o
        IN IF ~HasBrace(Body(arg.lines))
           THEN res.solution = NoSolution /\ StatLinesReturned
           ELSE /\ res.solution.kind = "dict"
                /\ DOMAIN res.solution.d =
                       PlainNames(fields) \cup (IF u # 0 THEN {<<"objective">>} ELSE {})
                /\ \A i \in DOMAIN fields :
                       (fields[i][1] \in PlainNames(fields) /\ fields[i][1] # <<"objective">>)
                           => res.solution.d[fields[i][1]] = fields[i][2]
                /\ last # 0 => res.solution.d[<<"objective">>] = fields[last][2]

\* C8 witness: {"x": 3, "_objective": 10, "_other": 3} behind a statistics
\* line was decoded to {"x": 3, "objective": 10}.
C8_Witness ==
    /\ pc = "done"
    /\ res.exc = "none"
    /\ arg.lines = <<Line("stat", <<"nodes">>, <<"1">>), Line("json", <<>>, <<>>)>>
    /\ arg.obj = << <<(<<"x">>), "3">>, <<(<<"_", "objective">>), "10">>,
                    <<(<<"_", "other">>), "3">> >>
    /\ DOMAIN res.solution.d = {<<"x">>, <<"objective">>}
    /\ res.solution.d[<<"x">>] = "3"
    /\ res.solution.d[<<"objective">>] = "10"
    /\ DOMAIN res.statistics = {<<"nodes">>}

\* C9: Result.objective is defined for every Result and never fails: absent
\* for an absent solution; the mapping's objective entry, or absent, for a
\* single mapping; the objective entry of the last element, or absent, for a
\* sequence of mappings of any length.
C9_ObjectiveDefined ==
    pc = "done" =>
        /\ res.exc = "none"
        /\ arg.kind = "None" => res.val = "None"
        /\ arg.kind = "dict" =>
               res.val = (IF <<"objective">> \in DOMAIN arg.d
                          THEN arg.d[<<"objective">>] ELSE "None")
        /\ arg.kind = "list" =>
               res.val = (IF arg.l # <<>> /\ <<"objective">> \in DOMAIN arg.l[Len(arg.l)]
                          THEN arg.l[Len(arg.l)][<<"objective">>] ELSE "None")

====
